---- MODULE Spec2Model ----
(***************************************************************************)
(* Document ingestion and retrieval pipeline of course_agent               *)
(* (backend/app/core/embeddings.py, backend/app/core/qdrant_service.py).   *)
(* and of the routes that call it (backend/app/api/routes/chat.py,         *)
(* backend/app/api/routes/documents.py, backend/app/api/routes/notion.py), *)
(* and of the client getters (backend/app/core/qdrant.py).                 *)
(*                                                                         *)
(* A string is a sequence of one-character strings.  The remote embedding  *)
(* service and the vector index are the environment: every outcome they    *)
(* can produce is an input of the action that calls them.                  *)
(* Wall-clock timestamps (created_at) are not modelled.                    *)
(***************************************************************************)
EXTENDS Integers, Sequences, FiniteSets, TLC

VARIABLES
    collection,       \* 0: the "documents" collection is absent; else its vector size
    store,            \* the points held by the collection
    nextUuid,         \* the next value uuid.uuid4() hands out
    embedding_model,  \* settings.OPENAI_EMBEDDING_MODEL
    last,             \* the last finished service call: arguments, outcome, remote calls
    fn,               \* the last finished call of a pure function (function specifications)
    threads,          \* the position and locals of every thread of the process
    clients,          \* the module globals _openai_client and qdrant_client
    sync              \* the NotionSyncStatus rows, by id

vars == <<collection, store, nextUuid, embedding_model, last, fn, threads, clients, sync>>

(***************************************************************************)
(* Bounds of the model and program constants.  The program constants are   *)
(* scaled down so that several chunks, batches and pages occur within the  *)
(* bounds; their mutual roles are those of the source.                     *)
(***************************************************************************)
MaxWords == 6            \* longest content, in words
MaxUuid == 5             \* the largest value uuid4 hands out
MaxTexts == 4            \* longest list given to generate_embeddings on its own
MaxChunkSize == 4        \* largest chunk_size and overlap given to chunk_text on its own

DefaultChunkSize == 3    \* chunk_size = 500
DefaultOverlap == 1      \* overlap = 50
BatchSize == 2           \* batch_size = 100
MaxChars == 12           \* max_chars = 32000; the placeholder text fits in it
DefaultListLimit == 2    \* get_user_documents(limit=50)
ScrollPageSize == 2      \* QdrantClient.scroll without limit returns 10 points

Owners == {"A", "B"}
Filenames == {"f.txt"}
Models == {"text-embedding-3-large", "custom-model"}
ConfiguredModel == "text-embedding-3-large"

Min(a, b) == IF a < b THEN a ELSE b

(***************************************************************************)
(* Python string and list primitives.                                      *)
(***************************************************************************)
Whitespace == {" ", "\n"}

\* s[i:j] of Python, 0-based, for 0 <= i
Slice(s, i, j) == SubSeq(s, i + 1, Min(j, Len(s)))

RECURSIVE Split(_)
\* str.split(): the maximal runs of non-whitespace characters, in order
Split(text) ==
    IF text = <<>> THEN <<>>
    ELSE IF Head(text) \in Whitespace THEN Split(Tail(text))
    ELSE LET rest == Split(Tail(text))
         IN  IF Len(text) > 1 /\ text[2] \notin Whitespace
             THEN <<(<<Head(text)>> \o Head(rest))>> \o Tail(rest)
             ELSE <<(<<Head(text)>>)>> \o rest

RECURSIVE Join(_)
\* ' '.join(words)
Join(words) ==
    IF words = <<>> THEN <<>>
    ELSE IF Len(words) = 1 THEN words[1]
    ELSE words[1] \o <<" ">> \o Join(Tail(words))

RECURSIVE LStrip(_)
LStrip(text) ==
    IF text # <<>> /\ Head(text) \in Whitespace THEN LStrip(Tail(text)) ELSE text

RECURSIVE RStrip(_)
RStrip(text) ==
    IF text # <<>> /\ text[Len(text)] \in Whitespace
    THEN RStrip(SubSeq(text, 1, Len(text) - 1)) ELSE text

\* str.strip()
Strip(text) == RStrip(LStrip(text))

RECURSIVE SumSeq(_)
SumSeq(s) == IF s = <<>> THEN 0 ELSE Head(s) + SumSeq(Tail(s))

(***************************************************************************)
(* embeddings.chunk_text                                                   *)
(***************************************************************************)
RECURSIVE MutChunkLoop(_, _, _, _, _)
\* mutant: the loop lacks the break at the end of the words
MutChunkLoop(words, i, chunk_size, overlap, chunks) ==
    IF i >= Len(words) THEN chunks
    ELSE LET chunk == Join(Slice(words, i, i + chunk_size))
         IN  MutChunkLoop(words, i + (chunk_size - overlap), chunk_size, overlap,
                          IF Strip(chunk) # <<>> THEN Append(chunks, chunk) ELSE chunks)

RECURSIVE MutChunkBreak(_, _, _, _, _)
\* mutant: the loop stops only once a window has passed the last word
MutChunkBreak(words, i, chunk_size, overlap, chunks) ==
    IF i >= Len(words) THEN chunks
    ELSE LET chunk == Join(Slice(words, i, i + chunk_size))
             chunks2 == IF Strip(chunk) # <<>> THEN Append(chunks, chunk) ELSE chunks
         IN  IF i + chunk_size > Len(words) THEN chunks2
             ELSE MutChunkBreak(words, i + (chunk_size - overlap), chunk_size, overlap,
                                chunks2)

RECURSIVE ChunkLoop(_, _, _, _, _)
\* the body of "for i in range(0, len(words), chunk_size - overlap)", from i on
ChunkLoop(words, i, chunk_size, overlap, chunks) ==
    IF i >= Len(words) THEN chunks
    ELSE LET chunk == Join(Slice(words, i, i + chunk_size))
             chunks2 == IF Strip(chunk) # <<>> THEN Append(chunks, chunk) ELSE chunks
         IN  IF i + chunk_size >= Len(words) THEN chunks2
             ELSE ChunkLoop(words, i + (chunk_size - overlap), chunk_size, overlap, chunks2)

\* range(0, n, 0) raises ValueError
ChunkTextRaises(chunk_size, overlap) == chunk_size - overlap = 0

\* mutant: a text without words yields one empty chunk
MutChunkText(text, chunk_size, overlap) ==
    IF Split(text) = <<>> THEN <<(<<>>)>>
    ELSE ChunkLoop(Split(text), 0, chunk_size, overlap, <<>>)

\* mutant: a text shorter than one chunk is returned trimmed, not re-joined
MutShortText(text, chunk_size, overlap) ==
    IF chunk_size - overlap <= 0 THEN <<>>
    ELSE IF Split(text) # <<>> /\ Len(Split(text)) < chunk_size THEN <<Strip(text)>>
    ELSE ChunkLoop(Split(text), 0, chunk_size, overlap, <<>>)

\* chunk_text(text, chunk_size, overlap) when it returns; a negative step
\* makes range() empty
chunk_text(text, chunk_size, overlap) ==
    IF chunk_size - overlap <= 0 THEN <<>>
    ELSE ChunkLoop(Split(text), 0, chunk_size, overlap, <<>>)

(***************************************************************************)
(* The remote embedding service.  A call is answered by one of Responses:  *)
(* "ok" one vector per input in order, "fail" an exception, "short" one    *)
(* vector too few, "long" one vector too many.                             *)
(***************************************************************************)
Responses == {"ok", "fail", "short", "long"}

\* the vector of a text under the configured model
Embed(text) == [of |-> text]
JunkVector == [of |-> <<"?", "?">>]

RemoteVectors(inputs, resp) ==
    LET vs == [k \in 1..Len(inputs) |-> Embed(inputs[k])]
    IN  CASE resp = "short" -> SubSeq(vs, 1, Len(vs) - 1)
          [] resp = "long" -> Append(vs, JunkVector)
          [] OTHER -> vs

(***************************************************************************)
(* embeddings.generate_embeddings                                          *)
(***************************************************************************)
\* mutant: a text without words is sent as it is cleaned, the empty string
MutCleanText(text) ==
    LET cleaned_text == Join(Split(text))
    IN  IF Len(cleaned_text) > MaxChars THEN Slice(cleaned_text, 0, MaxChars)
        ELSE cleaned_text

\* the cleaning of one text (lines 87-96)
CleanText(text) ==
    LET cleaned_text == Join(Split(text))
    IN  IF cleaned_text # <<>>
        THEN IF Len(cleaned_text) > MaxChars THEN Slice(cleaned_text, 0, MaxChars)
             ELSE cleaned_text
        ELSE <<"e", "m", "p", "t", "y", " ", "t", "e", "x", "t">>

EmbeddingError == "Failed to generate embeddings"

\* mutant: the batch misses its last text
MutBatchTexts(texts, i) == Slice(texts, i, i + BatchSize - 1)

\* batch_texts = texts[i:i + batch_size]
BatchTexts(texts, i) == Slice(texts, i, i + BatchSize)

RECURSIVE MutEmbedLoop(_, _, _, _, _)
\* mutant: a failed call is swallowed and the loop goes on with the next batch
MutEmbedLoop(texts, i, all_embeddings, calls, oracle) ==
    IF i >= Len(texts)
    THEN [ok |-> TRUE, error |-> "", embeddings |-> all_embeddings, calls |-> calls]
    ELSE LET cleaned_texts == [k \in 1..Len(BatchTexts(texts, i)) |->
                                  CleanText(BatchTexts(texts, i)[k])]
             resp == oracle[Len(calls) + 1]
         IN  MutEmbedLoop(texts, i + BatchSize,
                          IF resp = "fail" THEN all_embeddings
                          ELSE all_embeddings \o RemoteVectors(cleaned_texts, resp),
                          Append(calls, cleaned_texts), oracle)

RECURSIVE MutEmbedStride(_, _, _, _, _)
\* mutant: the loop advances by one text less than a batch holds
MutEmbedStride(texts, i, all_embeddings, calls, oracle) ==
    IF i >= Len(texts)
    THEN [ok |-> TRUE, error |-> "", embeddings |-> all_embeddings, calls |-> calls]
    ELSE LET cleaned_texts == [k \in 1..Len(BatchTexts(texts, i)) |->
                                  CleanText(BatchTexts(texts, i)[k])]
             resp == IF Len(calls) < Len(oracle) THEN oracle[Len(calls) + 1] ELSE "ok"
         IN  IF resp = "fail"
             THEN [ok |-> FALSE, error |-> EmbeddingError, embeddings |-> <<>>,
                   calls |-> Append(calls, cleaned_texts)]
             ELSE MutEmbedStride(texts, i + BatchSize - 1,
                                 all_embeddings \o RemoteVectors(cleaned_texts, resp),
                                 Append(calls, cleaned_texts), oracle)

RECURSIVE EmbedLoop(_, _, _, _, _)
\* the body of "for i in range(0, len(texts), batch_size)", from i on; oracle[k]
\* is the service's answer to the k-th call
EmbedLoop(texts, i, all_embeddings, calls, oracle) ==
    IF i >= Len(texts)
    THEN [ok |-> TRUE, error |-> "", embeddings |-> all_embeddings, calls |-> calls]
    ELSE LET batch_texts == BatchTexts(texts, i)
             cleaned_texts == [k \in 1..Len(batch_texts) |-> CleanText(batch_texts[k])]
             resp == oracle[Len(calls) + 1]
             calls2 == Append(calls, cleaned_texts)
         IN  IF resp = "fail"
             THEN [ok |-> FALSE, error |-> EmbeddingError, embeddings |-> <<>>,
                   calls |-> calls2]
             ELSE EmbedLoop(texts, i + BatchSize,
                            all_embeddings \o RemoteVectors(cleaned_texts, resp),
                            calls2, oracle)

generate_embeddings(texts, oracle) == EmbedLoop(texts, 0, <<>>, <<>>, oracle)

\* the number of batches of n texts
BatchCount(n) == (n + BatchSize - 1) \div BatchSize

\* the answers the service may give to the calls of one generate_embeddings
Oracles(n) == [1..((n + BatchSize - 1) \div BatchSize) -> Responses]

(***************************************************************************)
(* embeddings.create_document_chunks                                       *)
(***************************************************************************)
NoChunksError == "No chunks were created from the document"

\* hashlib.md5(content.encode()).hexdigest(), collisions apart
Md5(content) == [md5 |-> content]

\* mutant: chunk_index counts from 1
MutChunkData(u, i, chunk, embedding, document_id, file_hash, filename, user_id, model) ==
    [id |-> u,
     vector |-> embedding,
     payload |-> [document_id |-> document_id,
                  filename |-> filename,
                  user_id |-> user_id,
                  chunk_index |-> i + 1,
                  chunk_text |-> chunk,
                  file_hash |-> file_hash,
                  chunk_word_count |-> Len(Split(chunk)),
                  embedding_model |-> model]]

\* one chunk_data record (lines 126-140); u is the uuid4 drawn for its id
ChunkData(u, i, chunk, embedding, document_id, file_hash, filename, user_id, model) ==
    [id |-> u,
     vector |-> embedding,
     payload |-> [document_id |-> document_id,
                  filename |-> filename,
                  user_id |-> user_id,
                  chunk_index |-> i,
                  chunk_text |-> chunk,
                  file_hash |-> file_hash,
                  chunk_word_count |-> Len(Split(chunk)),
                  embedding_model |-> model]]

\* create_document_chunks(content, filename, user_id) with uuid4 handing out
\* uuid, uuid + 1, ...; "uuids" counts the values drawn
create_document_chunks(content, filename, user_id, model, uuid, oracle) ==
    LET chunks == chunk_text(content, DefaultChunkSize, DefaultOverlap)
    IN  IF chunks = <<>>
        THEN [ok |-> FALSE, error |-> NoChunksError, chunks |-> <<>>,
              calls |-> <<>>, uuids |-> 0]
        ELSE LET g == generate_embeddings(chunks, oracle)
             IN  IF ~g.ok
                 THEN [ok |-> FALSE, error |-> g.error, chunks |-> <<>>,
                       calls |-> g.calls, uuids |-> 0]
                 ELSE LET document_id == uuid
                          file_hash == Md5(content)
                          \* zip(chunks, embeddings) stops at the shorter list
                          n == Min(Len(chunks), Len(g.embeddings))
                      IN  [ok |-> TRUE, error |-> "",
                           chunks |-> [k \in 1..n |->
                                ChunkData(uuid + k, k - 1, chunks[k], g.embeddings[k],
                                          document_id, file_hash, filename, user_id,
                                          model)],
                           calls |-> g.calls, uuids |-> 1 + n]

(***************************************************************************)
(* The vector index (qdrant_client.QdrantClient), called through           *)
(* qdrant_service.  "fault" names the client call that raises during the   *)
(* operation ("none": no call raises).                                     *)
(***************************************************************************)
StorageError == "storage error"

\* qdrant_service.get_embedding_dimension
get_embedding_dimension(model) ==
    CASE model = "text-embedding-3-small" -> 1536
      [] model = "text-embedding-3-large" -> 3072
      [] model = "text-embedding-ada-002" -> 1536
      [] OTHER -> 1536

\* mutant: the collection is created anew at every call
MutEnsureRecreates(coll, model, fault) ==
    IF fault \in {"get_collection", "create_collection"}
    THEN [ok |-> FALSE, collection |-> coll,
          trace |-> <<"get_collection", "create_collection">>]
    ELSE [ok |-> TRUE, collection |-> get_embedding_dimension(model),
          trace |-> <<"get_collection", "create_collection">>]

\* qdrant_service.ensure_collection_exists: get_collection raises when the
\* collection is absent (or the call fails); create_collection raises when the
\* collection exists (or the call fails), and that exception propagates
ensure_collection_exists(coll, model, fault) ==
    IF coll # 0 /\ fault # "get_collection"
    THEN [ok |-> TRUE, collection |-> coll, trace |-> <<"get_collection">>]
    ELSE IF coll = 0 /\ fault # "create_collection"
         THEN [ok |-> TRUE, collection |-> get_embedding_dimension(model),
               trace |-> <<"get_collection", "create_collection">>]
         ELSE [ok |-> FALSE, collection |-> coll,
               trace |-> <<"get_collection", "create_collection">>]

\* the points a filter on user_id matches
MatchUser(points, user_id) == {p \in points : p.payload.user_id = user_id}

\* the points a filter on document_id and user_id matches
MatchDocument(points, document_id, user_id) ==
    {p \in points : p.payload.document_id = document_id /\ p.payload.user_id = user_id}

\* the pages a scroll or a search may return: the index orders points by their
\* (random) ids or by score, so any "limit" of the matching points can come first
Pages(matching, limit) ==
    {pg \in SUBSET matching : Cardinality(pg) = Min(limit, Cardinality(matching))}

RECURSIVE SumWordCount(_)
SumWordCount(points) ==
    IF points = {} THEN 0
    ELSE LET p == CHOOSE q \in points : TRUE
         IN  p.payload.chunk_word_count + SumWordCount(points \ {p})

RangeOf(s) == {s[k] : k \in DOMAIN s}

NoResult == "none"

\* the arguments of a service call
Call(op, user_id, document_id, limit, content) ==
    [op |-> op, user_id |-> user_id, document_id |-> document_id, limit |-> limit,
     content |-> content]

\* the record of a finished service call: its arguments, the client call that
\* raised (fault), the embedding service's answers (oracle), its outcome, the
\* client calls it issued in order (trace), the inputs of its embedding calls,
\* and the ids its filter matched and its scroll or search returned
Finished(call, fault, oracle, ok, error, result, trace, embed_calls, matching, fetched) ==
    [op |-> call.op, user_id |-> call.user_id, document_id |-> call.document_id,
     limit |-> call.limit, content |-> call.content,
     fault |-> fault, oracle |-> oracle, ok |-> ok, error |-> error, result |-> result,
     trace |-> trace, embed_calls |-> embed_calls, matching |-> matching,
     fetched |-> fetched]

\* the record of a service call that raised before any scroll or search returned
Raised(call, fault, oracle, error, trace, embed_calls) ==
    Finished(call, fault, oracle, FALSE, error, NoResult, trace, embed_calls, {}, {})

\* one "embed" step per remote call of generate_embeddings
EmbedSteps(calls) == [k \in 1..Len(calls) |-> "embed"]

\* mutant: the collection is ensured after the operation's other steps
MutThen(ensure_trace, steps) == steps \o ensure_trace

\* the steps of an operation in program order: ensure_collection_exists() is
\* its first statement, the other steps follow
Then(ensure_trace, steps) == ensure_trace \o steps

(***************************************************************************)
(* qdrant_service.store_document                                           *)
(***************************************************************************)
\* the dictionary store_document returns (lines 63-68)
StoreResult(chunks, filename) ==
    [document_id |-> chunks[1].payload.document_id,
     filename |-> filename,
     chunks_count |-> Len(chunks),
     total_words |-> SumSeq([k \in 1..Len(chunks) |->
                                chunks[k].payload.chunk_word_count])]

\* client.upsert: points are keyed by id
Upsert(points, new) == {p \in points : p.id \notin {q.id : q \in new}} \cup new

\* store_document(content, filename, user_id) on a collection coll holding
\* points, with uuid the next fresh id: the record of the call and the
\* collection, points and next id it leaves
store_document(coll, points, uuid, content, filename, user_id, oracle, fault) ==
    LET call == Call("store_document", user_id, 0, 0, content)
        Outcome(e, c, steps) ==
            IF ~e.ok
            THEN [rec |-> Raised(call, fault, oracle, StorageError, e.trace, <<>>),
                  collection |-> coll, store |-> points, nextUuid |-> uuid]
            ELSE IF ~c.ok
            THEN [rec |-> Raised(call, "none", oracle, c.error, steps, c.calls),
                  collection |-> e.collection, store |-> points, nextUuid |-> uuid]
            ELSE IF c.chunks = <<>>
            THEN [rec |-> Raised(call, "none", oracle, NoChunksError, steps, c.calls),
                  collection |-> e.collection, store |-> points,
                  nextUuid |-> uuid + c.uuids]
            ELSE IF fault = "upsert"
            THEN [rec |-> Raised(call, fault, oracle, StorageError,
                                 steps \o <<"upsert">>, c.calls),
                  collection |-> e.collection, store |-> points,
                  nextUuid |-> uuid + c.uuids]
            ELSE [rec |-> Finished(
                             [call EXCEPT
                                 !.document_id = c.chunks[1].payload.document_id],
                             "none", oracle, TRUE, "", StoreResult(c.chunks, filename),
                             steps \o <<"upsert">>, c.calls, {}, {}),
                  collection |-> e.collection,
                  store |-> Upsert(points, RangeOf(c.chunks)),
                  nextUuid |-> uuid + c.uuids]
    IN  CHOOSE out \in
           {Outcome(e, c, Then(e.trace, <<"chunk_text">> \o EmbedSteps(c.calls))) :
               e \in {ensure_collection_exists(coll, embedding_model, fault)},
               c \in {create_document_chunks(content, filename, user_id,
                                             embedding_model, uuid, oracle)}} : TRUE

StoreDocument(content, filename, user_id, oracle, fault) ==
    /\ nextUuid + Len(chunk_text(content, DefaultChunkSize, DefaultOverlap)) <= MaxUuid
    /\ \E o \in {store_document(collection, store, nextUuid, content, filename, user_id,
                                oracle, fault)} :
          /\ last' = o.rec
          /\ collection' = o.collection
          /\ store' = o.store
          /\ nextUuid' = o.nextUuid
    /\ UNCHANGED <<embedding_model, fn, threads, clients, sync>>

(***************************************************************************)
(* qdrant_service.search_documents                                         *)
(***************************************************************************)
\* one result record (lines 97-105); the score is the index's own
SearchResult(p) ==
    [id |-> p.id, filename |-> p.payload.filename, chunk_text |-> p.payload.chunk_text,
     document_id |-> p.payload.document_id, chunk_index |-> p.payload.chunk_index]

\* mutant: the search passes no query_filter
MutSearchFilter(points, user_id) == points

\* the points the search call's query_filter matches
SearchFilter(points, user_id) == MatchUser(points, user_id)

\* search_documents(query, user_id, limit) on a collection coll: the ways it can
\* end, each with the record of the call and the collection it leaves
search_documents(coll, query, user_id, limit, oracle, fault) ==
    LET call == Call("search_documents", user_id, 0, limit, query)
        e == ensure_collection_exists(coll, embedding_model, fault)
        g == generate_embeddings(<<query>>, oracle)
        matching == SearchFilter(store, user_id)
    IN  IF ~e.ok
        THEN {[rec |-> Raised(call, fault, oracle, StorageError, e.trace, <<>>),
               collection |-> coll]}
        ELSE IF ~g.ok
        THEN {[rec |-> Raised(call, "none", oracle, g.error,
                              Then(e.trace, EmbedSteps(g.calls)), g.calls),
               collection |-> e.collection]}
        ELSE IF g.embeddings = <<>>
        THEN \* query_embeddings[0] raises IndexError
             {[rec |-> Raised(call, "none", oracle, "IndexError",
                              Then(e.trace, EmbedSteps(g.calls)), g.calls),
               collection |-> e.collection]}
        ELSE IF fault = "search"
        THEN {[rec |-> Raised(call, fault, oracle, StorageError,
                              Then(e.trace, EmbedSteps(g.calls) \o <<"search">>),
                              g.calls),
               collection |-> e.collection]}
        ELSE {[rec |-> Finished(call, "none", oracle, TRUE, "",
                                {SearchResult(p) : p \in pg},
                                Then(e.trace, EmbedSteps(g.calls) \o <<"search">>),
                                g.calls, {p.id : p \in matching}, {p.id : p \in pg}),
               collection |-> e.collection] : pg \in Pages(matching, limit)}

SearchDocuments(query, user_id, limit, oracle, fault) ==
    /\ \E o \in search_documents(collection, query, user_id, limit, oracle, fault) :
          /\ last' = o.rec
          /\ collection' = o.collection
    /\ UNCHANGED <<store, nextUuid, embedding_model, fn, threads, clients, sync>>

(***************************************************************************)
(* qdrant_service.get_user_documents                                       *)
(***************************************************************************)
\* the points the scroll call's scroll_filter matches
ListFilter(points, user_id) == MatchUser(points, user_id)

\* the fold of lines 131-146 over one page; a document's chunks carry one
\* filename, so the chunk met first decides nothing
GroupByDocument(pg) ==
    {[document_id |-> d,
      filename |-> (CHOOSE p \in pg : p.payload.document_id = d).payload.filename,
      chunks_count |-> Cardinality({p \in pg : p.payload.document_id = d}),
      total_words |-> SumWordCount({p \in pg : p.payload.document_id = d})]
     : d \in {p.payload.document_id : p \in pg}}

GetUserDocuments(user_id, limit, fault) ==
    /\ LET call == Call("get_user_documents", user_id, 0, limit, <<>>)
           e == ensure_collection_exists(collection, embedding_model, fault)
           matching == ListFilter(store, user_id)
       IN  IF ~e.ok
           THEN /\ last' = Raised(call, fault, <<>>, StorageError, e.trace, <<>>)
                /\ UNCHANGED collection
           ELSE IF fault = "scroll"
           THEN /\ last' = Raised(call, fault, <<>>, StorageError,
                                  Then(e.trace, <<"scroll">>), <<>>)
                /\ collection' = e.collection
           ELSE \E pg \in Pages(matching, limit) :
                /\ last' = Finished(call, "none", <<>>, TRUE, "", GroupByDocument(pg),
                                    Then(e.trace, <<"scroll">>), <<>>,
                                    {p.id : p \in matching}, {p.id : p \in pg})
                /\ collection' = e.collection
    /\ UNCHANGED <<store, nextUuid, embedding_model, fn, threads, clients, sync>>

(***************************************************************************)
(* qdrant_service.delete_document                                          *)
(***************************************************************************)
\* mutant: the scroll filters on document_id only
MutDeleteFilter(points, document_id, user_id) ==
    {p \in points : p.payload.document_id = document_id}

\* the points the scroll call's scroll_filter matches
DeleteFilter(points, document_id, user_id) == MatchDocument(points, document_id, user_id)

\* the scroll call passes no limit: one page of the index's default size
DeleteScrollLimit == ScrollPageSize

DeleteDocument(document_id, user_id, fault) ==
    /\ LET call == Call("delete_document", user_id, document_id, 0, <<>>)
           e == ensure_collection_exists(collection, embedding_model, fault)
           matching == DeleteFilter(store, document_id, user_id)
       IN  IF ~e.ok
           THEN /\ last' = Raised(call, fault, <<>>, StorageError, e.trace, <<>>)
                /\ UNCHANGED <<collection, store>>
           ELSE IF fault = "scroll"
           THEN /\ last' = Raised(call, fault, <<>>, StorageError,
                                  Then(e.trace, <<"scroll">>), <<>>)
                /\ collection' = e.collection
                /\ UNCHANGED store
           ELSE \E pg \in Pages(matching, DeleteScrollLimit) :
                LET point_ids == {p.id : p \in pg}
                IN  IF point_ids = {}
                    THEN /\ last' = Finished(call, "none", <<>>, TRUE, "", FALSE,
                                             Then(e.trace, <<"scroll">>), <<>>,
                                             {p.id : p \in matching}, point_ids)
                         /\ collection' = e.collection
                         /\ UNCHANGED store
                    ELSE IF fault = "delete"
                    THEN /\ last' = Finished(call, fault, <<>>, FALSE, StorageError,
                                             NoResult, Then(e.trace, <<"scroll", "delete">>),
                                             <<>>, {p.id : p \in matching}, point_ids)
                         /\ collection' = e.collection
                         /\ UNCHANGED store
                    ELSE /\ store' = {p \in store : p.id \notin point_ids}
                         /\ last' = Finished(call, "none", <<>>, TRUE, "", TRUE,
                                             Then(e.trace, <<"scroll", "delete">>), <<>>,
                                             {p.id : p \in matching}, point_ids)
                         /\ collection' = e.collection
    /\ UNCHANGED <<nextUuid, embedding_model, fn, threads, clients, sync>>

(***************************************************************************)
(* Inputs and the specification of the service.                            *)
(***************************************************************************)
Letters == <<"a", "b", "c", "d", "e", "f", "g", "h">>

\* n words, "a b c ...", single spaces between
Text(n) == Join([k \in 1..n |-> <<Letters[((k - 1) % Len(Letters)) + 1]>>])

\* no word, whitespace only, one chunk, the longest content
Contents == {Text(0), <<" ", "\n">>, <<" ", "a", "\n", " ", "b">>, Text(MaxWords)}

Queries == {<<"a", " ", " ", "b">>}

\* the limits callers pass: a small one and the default of get_user_documents
Limits == {1, DefaultListLimit}

StoreFaults == {"none", "get_collection", "create_collection", "upsert"}
SearchFaults == {"none", "get_collection", "create_collection", "search"}
ListFaults == {"none", "get_collection", "create_collection", "scroll"}
DeleteFaults == {"none", "get_collection", "create_collection", "scroll", "delete"}

\* what the environment does during one operation: the answers of the
\* embedding service to n inputs, or one failing call of the vector index
Envs(n, faults) ==
    {[fault |-> "none", oracle |-> o] : o \in Oracles(n)}
        \cup {[fault |-> f, oracle |-> [k \in DOMAIN o |-> "ok"]] :
                  f \in faults \ {"none"}, o \in Oracles(n)}

NoCall ==
    Finished(Call("none", "", 0, 0, <<>>), "none", <<>>, TRUE, "", NoResult,
             <<>>, <<>>, {}, {})

NoFn == [name |-> "none"]

\* the threads that serve requests: the event loop and one worker of the pool
Threads == {1, 2}

\* a thread between two calls
Idle == [op |-> "none", pc |-> "idle", seen |-> 0, made |-> 0, result |-> NoResult]

\* no client has been constructed: both globals are None
\* built lists the constructor calls in order (an instance is named by its
\* position), returned the instances handed to callers so far
NoClients == [openai |-> 0, qdrant |-> 0, built |-> <<>>, returned |-> {}]

Init ==
    /\ collection = 0
    /\ store = {}
    /\ nextUuid = 1
    /\ embedding_model = ConfiguredModel
    /\ last = NoCall
    /\ fn = NoFn
    /\ threads = [t \in Threads |-> Idle]
    /\ clients = NoClients
    /\ sync = <<>>

Next ==
    \/ \E content \in Contents, filename \in Filenames, user_id \in Owners :
          \E env \in Envs(Len(chunk_text(content, DefaultChunkSize, DefaultOverlap)),
                          StoreFaults) :
             StoreDocument(content, filename, user_id, env.oracle, env.fault)
    \/ \E query \in Queries, user_id \in Owners, limit \in Limits,
          env \in Envs(1, SearchFaults) :
          SearchDocuments(query, user_id, limit, env.oracle, env.fault)
    \/ \E user_id \in Owners, limit \in Limits, fault \in ListFaults :
          GetUserDocuments(user_id, limit, fault)
    \/ \E document_id \in {0} \cup {p.payload.document_id : p \in store},
          user_id \in Owners, fault \in DeleteFaults :
          DeleteDocument(document_id, user_id, fault)

Spec == Init /\ [][Next]_vars

(***************************************************************************)
(* The functions of embeddings.py on their own: each behaviour is one call  *)
(* of one function on inputs drawn from the sets below.                    *)
(***************************************************************************)
TextPool == {<<>>, <<" ", "a", " ", " ", "b">>, Text(MaxChars)}

RECURSIVE SeqsUpTo(_, _)
\* the lists over pool of length at most n
SeqsUpTo(pool, n) ==
    IF n = 0 THEN {<<>>}
    ELSE LET shorter == SeqsUpTo(pool, n - 1)
             longest == {u \in shorter : Len(u) = n - 1}
         IN  shorter \cup {Append(t, x) : t \in longest, x \in pool}

GenerateEmbeddings(texts, oracle) ==
    /\ fn = NoFn
    /\ fn' = [name |-> "generate_embeddings", texts |-> texts, oracle |-> oracle,
              out |-> generate_embeddings(texts, oracle)]
    /\ UNCHANGED <<collection, store, nextUuid, embedding_model, last, threads, clients, sync>>

CreateDocumentChunks(content, filename, user_id, oracle) ==
    /\ fn = NoFn
    /\ nextUuid + Len(chunk_text(content, DefaultChunkSize, DefaultOverlap)) <= MaxUuid
    /\ LET out == create_document_chunks(content, filename, user_id, embedding_model,
                                         nextUuid, oracle)
       IN  /\ fn' = [name |-> "create_document_chunks", content |-> content,
                     filename |-> filename, user_id |-> user_id, oracle |-> oracle,
                     uuid |-> nextUuid, out |-> out]
           /\ nextUuid' = nextUuid + out.uuids
    /\ UNCHANGED <<collection, store, embedding_model, last, threads, clients, sync>>

\* the texts given to chunk_text: 0..MaxWords words separated by single spaces,
\* the same with whitespace around them, and the contents of the service
ChunkTexts ==
    Contents \cup {Text(n) : n \in 0..MaxWords}
             \cup {<<" ">> \o Text(n) \o <<"\n">> : n \in 0..MaxWords}

ChunkText(text, chunk_size, overlap) ==
    /\ fn = NoFn
    /\ fn' = [name |-> "chunk_text", text |-> text, chunk_size |-> chunk_size,
              overlap |-> overlap,
              raised |-> ChunkTextRaises(chunk_size, overlap),
              out |-> IF ChunkTextRaises(chunk_size, overlap) THEN <<>>
                      ELSE chunk_text(text, chunk_size, overlap)]
    /\ UNCHANGED <<collection, store, nextUuid, embedding_model, last, threads, clients, sync>>

InitFn ==
    /\ collection = 0
    /\ store = {}
    /\ nextUuid = 1
    /\ embedding_model \in Models
    /\ last = NoCall
    /\ fn = NoFn
    /\ threads = [t \in Threads |-> Idle]
    /\ clients = NoClients
    /\ sync = <<>>

NextFn ==
    \/ \E texts \in SeqsUpTo(TextPool, MaxTexts) :
          \E oracle \in Oracles(Len(texts)) : GenerateEmbeddings(texts, oracle)
    \/ \E content \in Contents, filename \in Filenames, user_id \in Owners :
          \E oracle \in Oracles(Len(chunk_text(content, DefaultChunkSize,
                                                 DefaultOverlap))) :
             CreateDocumentChunks(content, filename, user_id, oracle)
    \/ \E text \in ChunkTexts, chunk_size \in 1..MaxChunkSize,
          overlap \in 0..MaxChunkSize :
          ChunkText(text, chunk_size, overlap)

SpecFn == InitFn /\ [][NextFn]_vars

(***************************************************************************)
(* The collection over several deployments: ensure_collection_exists on    *)
(* its own and through the read operations, while the configured model     *)
(* may change between calls (settings are read at every call).             *)
(***************************************************************************)
DeployedModels == Models \cup {"text-embedding-3-small"}

EnsureFaults == {"none", "get_collection", "create_collection"}

EnsureCollectionExists(fault) ==
    /\ LET call == Call("ensure_collection_exists", "", 0, 0, <<>>)
           e == ensure_collection_exists(collection, embedding_model, fault)
       IN  /\ last' = Finished(call, IF e.ok THEN "none" ELSE fault, <<>>, e.ok,
                               IF e.ok THEN "" ELSE StorageError, NoResult, e.trace,
                               <<>>, {}, {})
           /\ collection' = e.collection
    /\ UNCHANGED <<store, nextUuid, embedding_model, fn, threads, clients, sync>>

\* the service is deployed again with another OPENAI_EMBEDDING_MODEL
Redeploy(model) ==
    /\ embedding_model # model
    /\ embedding_model' = model
    /\ UNCHANGED <<collection, store, nextUuid, last, fn, threads, clients, sync>>

InitColl ==
    /\ collection = 0
    /\ store = {}
    /\ nextUuid = 1
    /\ embedding_model \in DeployedModels
    /\ last = NoCall
    /\ fn = NoFn
    /\ threads = [t \in Threads |-> Idle]
    /\ clients = NoClients
    /\ sync = <<>>

NextColl ==
    \/ \E fault \in EnsureFaults : EnsureCollectionExists(fault)
    \/ \E model \in DeployedModels : Redeploy(model)
    \/ \E query \in Queries, user_id \in Owners, limit \in Limits,
          env \in Envs(1, SearchFaults) :
          SearchDocuments(query, user_id, limit, env.oracle, env.fault)
    \/ \E user_id \in Owners, limit \in Limits, fault \in ListFaults :
          GetUserDocuments(user_id, limit, fault)

SpecColl == InitColl /\ [][NextColl]_vars

(***************************************************************************)
(* The callers of search_documents: the chat helper and route              *)
(* (api/routes/chat.py) and the search route (api/routes/documents.py).    *)
(* A record of such a call keeps the trace, fault and error of the         *)
(* search_documents call inside it; ok tells whether the caller itself     *)
(* returned (TRUE) or raised (FALSE).                                      *)
(***************************************************************************)
DefaultContextLimit == 2    \* ChatMessage.context_limit = 5

\* mutant: the helper lets the exception through
MutContextRaises(coll, query, user_id, limit, oracle, fault) ==
    {[raised |-> ~o.rec.ok, value |-> IF o.rec.ok THEN o.rec.result ELSE NoResult,
      inner |-> o.rec, collection |-> o.collection] :
        o \in search_documents(coll, query, user_id, limit, oracle, fault)}

\* chat.search_relevant_context: "except Exception" prints and returns []
search_relevant_context(coll, query, user_id, limit, oracle, fault) ==
    {[raised |-> FALSE, value |-> IF o.rec.ok THEN o.rec.result ELSE {},
      inner |-> o.rec, collection |-> o.collection] :
        o \in search_documents(coll, query, user_id, limit, oracle, fault)}

SearchRelevantContext(query, user_id, limit, oracle, fault) ==
    /\ \E c \in search_relevant_context(collection, query, user_id, limit, oracle,
                                        fault) :
          /\ last' = [c.inner EXCEPT !.op = "search_relevant_context",
                                     !.ok = ~c.raised, !.result = c.value]
          /\ collection' = c.collection
    /\ UNCHANGED <<store, nextUuid, embedding_model, fn, threads, clients, sync>>

\* chat.build_system_prompt: which of the two prompts is built
build_system_prompt(context) == IF context = {} THEN "general" ELSE "documents"

\* what chat_message answers once the context is known; the failures of the
\* chat completion are yielded as text by generate_chat_response
ChatReply(context) ==
    [status |-> 200, context_used |-> context, prompt |-> build_system_prompt(context)]

\* the generator a streaming response wraps, before its first event: the
\* events it has yielded (by type and text; the context the metadata event
\* carries is the context_used of the route's record), response_text, and
\* the chunks it has pulled from generate_chat_response
ResponseGenerator ==
    [op |-> "response_generator", pc |-> "metadata", events |-> <<>>,
     response_text |-> <<>>, pulled |-> 0]

\* chat.chat_message: the context is searched once, and once more on the
\* non-streaming path, whose response uses the second context; on the
\* streaming path the route returns the generator, which runs afterwards
ChatMessage(message, user_id, context_limit, stream, env, env2) ==
    /\ LET call == Call("chat_message", user_id, 0, context_limit, message)
       IN  IF Strip(message) = <<>>
           THEN /\ last' = Finished(call, "none", <<>>, FALSE, "Message cannot be empty",
                                    [status |-> 400], <<>>, <<>>, {}, {})
                /\ UNCHANGED <<collection, threads>>
           ELSE \E c \in search_relevant_context(collection, message, user_id,
                                                 context_limit, env.oracle, env.fault) :
                   IF stream
                   THEN /\ last' = [c.inner EXCEPT !.op = "chat_message",
                                                   !.ok = ~c.raised,
                                                   !.result = ChatReply(c.value)]
                        /\ collection' = c.collection
                        /\ threads' = [threads EXCEPT ![1] = ResponseGenerator]
                   ELSE \E d \in search_relevant_context(c.collection, message,
                                      user_id, context_limit, env2.oracle, env2.fault) :
                           /\ last' = [d.inner EXCEPT
                                          !.op = "chat_message",
                                          !.ok = ~c.raised /\ ~d.raised,
                                          !.result = ChatReply(d.value),
                                          !.trace = c.inner.trace \o d.inner.trace]
                           /\ collection' = d.collection
                           /\ UNCHANGED threads
    /\ UNCHANGED <<store, nextUuid, embedding_model, fn, clients, sync>>

SearchErrorDetail == "Error searching documents"

\* mutant: the route answers a failed search with an empty list
MutSearchSwallows(rec) ==
    IF rec.ok THEN [status |-> 200, body |-> rec.result]
    ELSE [status |-> 200, body |-> {}]

\* documents.search_user_documents: the response to a finished search_documents
search_user_documents(rec) ==
    IF rec.ok THEN [status |-> 200, body |-> rec.result]
    ELSE [status |-> 500, detail |-> <<SearchErrorDetail, rec.error>>]

SearchUserDocuments(query, user_id, limit, oracle, fault) ==
    /\ \E o \in search_documents(collection, query, user_id, limit, oracle, fault) :
          /\ last' = [o.rec EXCEPT !.op = "search_user_documents",
                                   !.ok = search_user_documents(o.rec).status = 200,
                                   !.result = search_user_documents(o.rec)]
          /\ collection' = o.collection
    /\ UNCHANGED <<store, nextUuid, embedding_model, fn, threads, clients, sync>>

Messages == Queries \cup {<<" ">>}

\* documents of one and of several chunks, stored without incident
ApiContents == {<<" ", "a", "\n", " ", "b">>, Text(MaxWords)}

NextApi ==
    \/ \E content \in ApiContents, filename \in Filenames, user_id \in Owners :
          StoreDocument(content, filename, user_id,
                        [k \in 1..BatchCount(Len(chunk_text(content, DefaultChunkSize,
                                                            DefaultOverlap))) |-> "ok"],
                        "none")
    \/ \E query \in Queries, user_id \in Owners, limit \in Limits,
          env \in Envs(1, SearchFaults) :
          SearchDocuments(query, user_id, limit, env.oracle, env.fault)
    \/ \E query \in Queries, user_id \in Owners, limit \in Limits,
          env \in Envs(1, SearchFaults) :
          SearchRelevantContext(query, user_id, limit, env.oracle, env.fault)
    \/ \E message \in Messages, user_id \in Owners, stream \in BOOLEAN,
          env \in Envs(1, SearchFaults), env2 \in Envs(1, SearchFaults) :
          ChatMessage(message, user_id, DefaultContextLimit, stream, env, env2)
    \/ \E query \in Queries, user_id \in Owners, limit \in Limits,
          env \in Envs(1, SearchFaults) :
          SearchUserDocuments(query, user_id, limit, env.oracle, env.fault)

SpecApi == Init /\ [][NextApi]_vars

(***************************************************************************)
(* chat_message.response_generator, one event per step, as the server      *)
(* pulls it.  The chat completion service is the environment: at each pull *)
(* it hands generate_chat_response a chunk with text, a chunk without      *)
(* (skipped), the end of the stream, or an exception.                      *)
(***************************************************************************)
MaxPulls == 3    \* most chunks the completion stream delivers

\* the texts of the chunks of a completion stream; <<>> is a chunk whose
\* delta.content is empty or None
Deltas == {<<>>, <<"H", "i">>, <<"!">>}

GenerationErrorText == <<"E", "r", "r", "o", "r">>

\* the generator running in the event loop
Gen == threads[1]

Yield(event) == [threads EXCEPT ![1].events = Append(@, event)]

\* yield the metadata event
StreamMetadata ==
    /\ Gen.pc = "metadata"
    /\ threads' = [Yield([type |-> "metadata"])
                      EXCEPT ![1].pc = "start"]
    /\ UNCHANGED <<collection, store, nextUuid, embedding_model, last, fn, clients, sync>>

\* the first pull runs generate_chat_response up to its try block:
\* get_openai_client() raising is not caught there and reaches the
\* generator's own except branch, which yields the error event
StreamStart(client_ok) ==
    /\ Gen.pc = "start"
    /\ threads' = IF client_ok THEN [threads EXCEPT ![1].pc = "content"]
                  ELSE [Yield([type |-> "error"]) EXCEPT ![1].pc = "done"]
    /\ UNCHANGED <<collection, store, nextUuid, embedding_model, last, fn, clients, sync>>

\* one chunk of the completion stream: its text, when it has one, is
\* yielded as a content event and added to response_text
StreamContent(delta) ==
    /\ Gen.pc = "content"
    /\ Gen.pulled < MaxPulls
    /\ threads' = IF delta = <<>> THEN [threads EXCEPT ![1].pulled = @ + 1]
                  ELSE [Yield([type |-> "content", content |-> delta])
                           EXCEPT ![1].pulled = @ + 1,
                                  ![1].response_text = @ \o delta]
    /\ UNCHANGED <<collection, store, nextUuid, embedding_model, last, fn, clients, sync>>

\* the completion call or its stream raises: generate_chat_response yields
\* the error text as its last chunk
StreamFailure ==
    /\ Gen.pc = "content"
    /\ threads' = [Yield([type |-> "content", content |-> GenerationErrorText])
                      EXCEPT ![1].response_text = @ \o GenerationErrorText,
                             ![1].pc = "closing"]
    /\ UNCHANGED <<collection, store, nextUuid, embedding_model, last, fn, clients, sync>>

\* mutant: the completion event carries the last fragment only
MutFullResponse(g) ==
    IF g.events[Len(g.events)].type = "content" THEN g.events[Len(g.events)].content
    ELSE <<>>

\* full_response of the completion event
FullResponse(g) == g.response_text

\* generate_chat_response is exhausted: yield the completion event
StreamComplete ==
    /\ Gen.pc \in {"content", "closing"}
    /\ threads' = [Yield([type |-> "complete", full_response |-> FullResponse(Gen)])
                      EXCEPT ![1].pc = "done"]
    /\ UNCHANGED <<collection, store, nextUuid, embedding_model, last, fn, clients, sync>>

NextStream ==
    \/ \E message \in Messages, user_id \in Owners, stream \in BOOLEAN,
          env \in Envs(1, SearchFaults) :
          ChatMessage(message, user_id, DefaultContextLimit, stream, env, env)
    \/ StreamMetadata
    \/ \E client_ok \in BOOLEAN : StreamStart(client_ok)
    \/ \E delta \in Deltas : StreamContent(delta)
    \/ StreamFailure
    \/ StreamComplete

SpecStream == Init /\ [][NextStream]_vars

(***************************************************************************)
(* documents.upload_document.  A file is its name, split at the dots, and  *)
(* its bytes; the files of the model are text files, whose extraction is   *)
(* decode('utf-8', errors='ignore') (PDF and DOCX extraction is a library  *)
(* call and is not modelled).                                              *)
(***************************************************************************)
MaxFileSize == 12    \* MAX_FILE_SIZE = 10 * 1024 * 1024 bytes

AllowedExtensions == {"pdf", "docx", "txt", "md", "py", "js", "html", "css"}

\* a byte sequence that is not valid UTF-8
InvalidByte == "\\xff"

\* '.' + filename.split('.')[-1].lower() if '.' in filename else ''
FileExtension(filename) ==
    IF Len(filename) > 1
    THEN (IF filename[Len(filename)] = "TXT" THEN "txt" ELSE filename[Len(filename)])
    ELSE ""

\* extract_text_from_file for a .txt file: invalid bytes are dropped
extract_text_from_file(bytes) == SelectSeq(bytes, LAMBDA b : b # InvalidByte)

FileTooLargeDetail == "File too large. Maximum size is 10MB."
UnsupportedTypeDetail == "Unsupported file type."
NoTextDetail == "No text content could be extracted from the file."
ProcessingErrorDetail == "Error processing document"

\* what "except Exception" makes of an HTTPException raised inside the try
\* block: HTTPException is an Exception, so it is caught and wrapped
UploadRejects(status, detail) ==
    [status |-> 500, detail |-> <<ProcessingErrorDetail, status, detail>>]

\* the response to a store_document call that finished with record rec
UploadResponse(rec) ==
    IF rec.ok THEN [status |-> 200, body |-> rec.result]
    ELSE [status |-> 500, detail |-> <<ProcessingErrorDetail, rec.error>>]

\* the record of a route that answered without calling the pipeline
Answered(call, response) ==
    Finished(call, "none", <<>>, response.status = 200, "", response, <<>>, <<>>, {}, {})

UploadDocument(file, user_id, oracle, fault) ==
    /\ LET call == Call("upload_document", user_id, 0, 0, file.bytes)
           text_content == extract_text_from_file(file.bytes)
       IN  IF Len(file.bytes) > MaxFileSize
           THEN /\ last' = Answered(call, [status |-> 413, detail |-> FileTooLargeDetail])
                /\ UNCHANGED <<collection, store, nextUuid>>
           ELSE IF FileExtension(file.filename) \notin AllowedExtensions
           THEN /\ last' = Answered(call, [status |-> 400,
                                           detail |-> UnsupportedTypeDetail])
                /\ UNCHANGED <<collection, store, nextUuid>>
           ELSE IF Strip(text_content) = <<>>
           THEN /\ last' = Answered(call, UploadRejects(400, NoTextDetail))
                /\ UNCHANGED <<collection, store, nextUuid>>
           ELSE \E o \in {store_document(collection, store, nextUuid, text_content,
                                         file.filename, user_id, oracle, fault)} :
                /\ o.nextUuid <= MaxUuid + 1
                /\ last' = [o.rec EXCEPT !.op = "upload_document",
                                         !.content = file.bytes,
                                         !.result = UploadResponse(o.rec),
                                         !.trace = <<"store_document">> \o @]
                /\ collection' = o.collection
                /\ store' = o.store
                /\ nextUuid' = o.nextUuid
    /\ UNCHANGED <<embedding_model, fn, threads, clients, sync>>

\* files: empty, whitespace only, undecodable only, one chunk (with an
\* undecodable byte inside), several chunks, too large
FileBytes ==
    {<<>>, <<" ", "\n">>, <<InvalidByte>>, <<"a", InvalidByte, " ", "b">>,
     Text(DefaultChunkSize + 1), Text(MaxFileSize)}

UploadNames == {<<"f", "txt">>, <<"f", "TXT">>, <<"f", "exe">>, <<"f">>}

\* the embedding service answers every batch of the chunks of text
AllOk(text) ==
    [k \in 1..BatchCount(Len(chunk_text(text, DefaultChunkSize, DefaultOverlap)))
        |-> "ok"]

(***************************************************************************)
(* notion.sync_notion_pages.  The Notion API is the environment: listing   *)
(* tells how fetch_all_pages ends ("ok", "api_error" a non-200 answer,     *)
(* "exception" requests.post or resp.json() raising), and every page       *)
(* carries how fetch_page_content ends for it, its text, and what the      *)
(* vector index does during its store_document.                            *)
(***************************************************************************)
Listings == {"ok", "api_error", "exception"}

NotionErrorDetail == "Failed to fetch pages"

\* the response when fetch_all_pages raised: only NotionAPIError is caught,
\* any other exception leaves the route and is answered 500 by the server
ListingResponse(listing) ==
    IF listing = "api_error" THEN [status |-> 400, detail |-> NotionErrorDetail]
    ELSE [status |-> 500, detail |-> "Internal Server Error"]

\* the state the page loop threads through its iterations
PageLoop(coll, points, uuid) ==
    [collection |-> coll, store |-> points, nextUuid |-> uuid, details |-> <<>>,
     synced |-> 0, trace |-> <<>>, embed_calls |-> <<>>]

\* one iteration of "for page in pages" of sync_notion_pages: a page that
\* fails is reported and the loop goes on
SyncPage(page, user_id, acc) ==
    LET fetched == [acc EXCEPT !.trace = Append(@, "fetch_page_content")]
    IN  IF page.fetch # "ok"
        THEN [fetched EXCEPT !.details = Append(@, <<"Failed", page.title>>)]
        ELSE IF Strip(page.content) = <<>>
        THEN [fetched EXCEPT !.details = Append(@, <<"Skipped empty page", page.title>>)]
        ELSE CHOOSE next \in
                {[collection |-> o.collection, store |-> o.store,
                  nextUuid |-> o.nextUuid,
                  details |-> Append(acc.details,
                                     <<IF o.rec.ok THEN "Synced" ELSE "Failed",
                                       page.title>>),
                  synced |-> acc.synced + (IF o.rec.ok THEN 1 ELSE 0),
                  trace |-> fetched.trace \o <<"store_document">> \o o.rec.trace,
                  embed_calls |-> acc.embed_calls \o o.rec.embed_calls] :
                    o \in {store_document(acc.collection, acc.store, acc.nextUuid,
                                          page.content, page.title, user_id,
                                          AllOk(page.content), page.fault)}} : TRUE

RECURSIVE SyncPages(_, _, _)
\* "for page in pages" of sync_notion_pages
SyncPages(pages, user_id, acc) ==
    IF pages = <<>> THEN acc
    ELSE CHOOSE r \in {SyncPages(Tail(pages), user_id, next) :
                          next \in {SyncPage(Head(pages), user_id, acc)}} : TRUE

SyncNotionPages(listing, pages, user_id) ==
    /\ LET call == Call("sync_notion_pages", user_id, 0, 0, pages)
       IN  IF listing # "ok"
           THEN /\ last' = [Answered(call, ListingResponse(listing)) EXCEPT
                               !.fault = listing, !.trace = <<"fetch_all_pages">>]
                /\ UNCHANGED <<collection, store, nextUuid>>
           ELSE \E r \in {SyncPages(pages, user_id,
                                    PageLoop(collection, store, nextUuid))} :
                /\ r.nextUuid <= MaxUuid + 1
                /\ last' = Finished(call, "none", <<>>, TRUE, "",
                                    [status |-> 200, synced_pages |-> r.synced,
                                     details |-> r.details],
                                    <<"fetch_all_pages">> \o r.trace, r.embed_calls,
                                    {}, {})
                /\ collection' = r.collection
                /\ store' = r.store
                /\ nextUuid' = r.nextUuid
    /\ UNCHANGED <<embedding_model, fn, threads, clients, sync>>

MaxPages == 2    \* most pages the Notion workspace lists

\* pages: content that cannot be fetched, an empty page, a page that is
\* stored, a page whose upsert fails
NotionPages ==
    {[title |-> "p", fetch |-> "fail", content |-> <<"a">>, fault |-> "none"],
     [title |-> "p", fetch |-> "ok", content |-> <<" ">>, fault |-> "none"],
     [title |-> "p", fetch |-> "ok", content |-> <<"a">>, fault |-> "none"],
     [title |-> "q", fetch |-> "ok", content |-> <<"a", " ", "b">>, fault |-> "upsert"]}

\* what the Notion API does during one sync: the listing fails, or it
\* returns up to MaxPages pages
NotionEnvs ==
    {[listing |-> l, pages |-> <<>>] : l \in Listings \ {"ok"}}
        \cup {[listing |-> "ok", pages |-> ps] : ps \in SeqsUpTo(NotionPages, MaxPages)}

NextRoutes ==
    \/ \E file \in [filename : UploadNames, bytes : FileBytes], user_id \in Owners,
          fault \in {"none", "upsert"} :
          UploadDocument(file, user_id, AllOk(extract_text_from_file(file.bytes)), fault)
    \/ \E env \in NotionEnvs, user_id \in Owners :
          SyncNotionPages(env.listing, env.pages, user_id)

SpecRoutes == Init /\ [][NextRoutes]_vars

(***************************************************************************)
(* notion.sync_notion_pages_async and its background task do_sync.  The    *)
(* route inserts a NotionSyncStatus row and returns; do_sync runs later in *)
(* a worker thread, several of them possibly at once.  db tells whether    *)
(* the session.commit() of the step succeeds.                              *)
(***************************************************************************)
MaxSyncs == 2    \* most sync requests of one run

Commits == {"ok", "fail"}

\* NotionSyncStatus(user_id=..., status="pending"): finished_at and
\* error_message are None
PendingSync(user_id) ==
    [user_id |-> user_id, status |-> "pending", finished_at |-> "none",
     error_message |-> "none"]

SyncNotionPagesAsync(t, user_id, connected, db) ==
    /\ threads[t].pc = "idle"
    /\ Len(sync) < MaxSyncs
    /\ LET call == Call("sync_notion_pages_async", user_id, 0, 0, <<>>)
       IN  IF ~connected
           THEN /\ last' = Answered(call, [status |-> 400,
                                           detail |-> "Notion not connected"])
                /\ UNCHANGED <<sync, threads>>
           ELSE IF db # "ok"
           THEN /\ last' = [Answered(call, [status |-> 500,
                                            detail |-> "Internal Server Error"])
                               EXCEPT !.fault = "commit"]
                /\ UNCHANGED <<sync, threads>>
           ELSE /\ sync' = Append(sync, PendingSync(user_id))
                /\ threads' = [threads EXCEPT ![t] =
                                  [op |-> "do_sync", pc |-> "begin",
                                   user_id |-> user_id, sync_id |-> Len(sync) + 1]]
                /\ last' = Answered(call, [status |-> 200, body |-> "sync started"])
    /\ UNCHANGED <<collection, store, nextUuid, embedding_model, fn, clients>>

\* do_sync up to the first commit: the row is read (it exists: no code
\* deletes one) and marked running
DoSyncBegin(t, db) ==
    /\ threads[t].pc = "begin"
    /\ LET id == threads[t].sync_id
           call == Call("do_sync", threads[t].user_id, id, 0, <<>>)
       IN  IF db # "ok"
           THEN /\ last' = Raised(call, "commit", <<>>, "begin", <<>>, <<>>)
                /\ threads' = [threads EXCEPT ![t] = Idle]
                /\ UNCHANGED sync
           ELSE /\ sync' = [sync EXCEPT ![id].status = "running"]
                /\ threads' = [threads EXCEPT ![t].pc = "run"]
                /\ UNCHANGED last
    /\ UNCHANGED <<collection, store, nextUuid, embedding_model, fn, clients>>

\* one iteration of "for page in pages" of do_sync; details holds the
\* exception raised, synced counts the documents stored
DoSyncPage(page, user_id, acc) ==
    LET fetched == [acc EXCEPT !.trace = Append(@, "fetch_page_content")]
    IN  IF page.fetch # "ok"
        THEN [fetched EXCEPT !.details = <<"Failed to fetch page content">>]
        ELSE IF Strip(page.content) = <<>>
        THEN fetched
        ELSE CHOOSE next \in
                {[collection |-> o.collection, store |-> o.store,
                  nextUuid |-> o.nextUuid,
                  details |-> IF o.rec.ok THEN <<>> ELSE <<o.rec.error>>,
                  synced |-> acc.synced + (IF o.rec.ok THEN 1 ELSE 0),
                  trace |-> fetched.trace \o <<"store_document">> \o o.rec.trace,
                  embed_calls |-> acc.embed_calls \o o.rec.embed_calls] :
                    o \in {store_document(acc.collection, acc.store, acc.nextUuid,
                                          page.content, page.title, user_id,
                                          AllOk(page.content), page.fault)}} : TRUE

RECURSIVE DoSyncPages(_, _, _)
\* "for page in pages" of do_sync: the first exception ends the loop
DoSyncPages(pages, user_id, acc) ==
    IF pages = <<>> \/ acc.details # <<>> THEN acc
    ELSE CHOOSE r \in {DoSyncPages(Tail(pages), user_id, next) :
                          next \in {DoSyncPage(Head(pages), user_id, acc)}} : TRUE

\* mutant: the except branch records success as well
MutSyncOutcome(error) ==
    [status |-> "success", finished_at |-> "set", error_message |-> "none"]

\* the fields do_sync sets at the end of the try block or in its except branch
SyncOutcome(error) ==
    IF error = <<>>
    THEN [status |-> "success", finished_at |-> "set", error_message |-> "none"]
    ELSE [status |-> "error", finished_at |-> "set", error_message |-> error]

\* do_sync from the try block to the last commit
DoSyncFinish(t, user_found, listing, pages, db) ==
    /\ threads[t].pc = "run"
    /\ LET id == threads[t].sync_id
           user_id == threads[t].user_id
           call == Call("do_sync", user_id, id, 0, pages)
           start == PageLoop(collection, store, nextUuid)
       IN  \E r \in {IF ~user_found THEN [start EXCEPT !.details = <<"User not found">>]
                     ELSE IF listing # "ok"
                     THEN [start EXCEPT !.details = <<NotionErrorDetail>>,
                                        !.trace = <<"fetch_all_pages">>]
                     ELSE DoSyncPages(pages, user_id,
                                      [start EXCEPT !.trace = <<"fetch_all_pages">>])} :
           \E out \in {SyncOutcome(r.details)} :
              /\ r.nextUuid <= MaxUuid + 1
              /\ collection' = r.collection
              /\ store' = r.store
              /\ nextUuid' = r.nextUuid
              /\ sync' = IF db = "ok"
                         THEN [sync EXCEPT ![id].status = out.status,
                                           ![id].finished_at = out.finished_at,
                                           ![id].error_message = out.error_message]
                         ELSE sync
              /\ last' = Finished(call, IF db = "ok" THEN "none" ELSE "commit", <<>>,
                                  db = "ok", IF db = "ok" THEN "" ELSE "finish",
                                  [user_found |-> user_found, listing |-> listing,
                                   stored |-> r.synced, error |-> r.details],
                                  r.trace, r.embed_calls, {}, {})
              /\ threads' = [threads EXCEPT ![t] = Idle]
    /\ UNCHANGED <<embedding_model, fn, clients>>

\* the user whose syncs are followed
SyncUsers == {"A"}

NextSync ==
    \/ \E t \in Threads, user_id \in SyncUsers, connected \in BOOLEAN, db \in Commits :
          SyncNotionPagesAsync(t, user_id, connected, db)
    \/ \E t \in Threads, db \in Commits : DoSyncBegin(t, db)
    \/ \E t \in Threads, db \in Commits :
          \/ DoSyncFinish(t, FALSE, "ok", <<>>, db)
          \/ \E env \in NotionEnvs : DoSyncFinish(t, TRUE, env.listing, env.pages, db)

SpecSync == Init /\ [][NextSync]_vars

(***************************************************************************)
(* embeddings.get_openai_client and qdrant.get_qdrant_client, called from  *)
(* the threads that serve requests (the routes declared with "def" and the *)
(* background tasks run in the worker pool).  A thread may be preempted    *)
(* between any two of: the test of the global, the constructor call, the   *)
(* store to the global, the load of the global for the return.             *)
(***************************************************************************)
ClientGetters == {"openai", "qdrant"}

\* the module global the getter reads and writes
GlobalOf(which) == IF which = "openai" THEN clients.openai ELSE clients.qdrant

GetClientCall(t, which) ==
    /\ threads[t].pc = "idle"
    /\ threads' = [threads EXCEPT ![t] = [Idle EXCEPT !.op = which, !.pc = "check"]]
    /\ UNCHANGED <<collection, store, nextUuid, embedding_model, last, fn, clients, sync>>

\* if _openai_client is None:
GetClientCheck(t) ==
    /\ threads[t].pc = "check"
    /\ threads' = [threads EXCEPT ![t].seen = GlobalOf(threads[t].op),
                                  ![t].pc = IF GlobalOf(threads[t].op) = 0
                                            THEN "construct" ELSE "return"]
    /\ UNCHANGED <<collection, store, nextUuid, embedding_model, last, fn, clients, sync>>

\* OpenAI(api_key=...) / QdrantClient(url=..., api_key=...)
GetClientConstruct(t) ==
    /\ threads[t].pc = "construct"
    /\ clients' = [clients EXCEPT !.built = Append(@, threads[t].op)]
    /\ threads' = [threads EXCEPT ![t].made = Len(clients.built) + 1,
                                  ![t].pc = "assign"]
    /\ UNCHANGED <<collection, store, nextUuid, embedding_model, last, fn, sync>>

\* _openai_client = <the new instance>
GetClientAssign(t) ==
    /\ threads[t].pc = "assign"
    /\ clients' = IF threads[t].op = "openai"
                  THEN [clients EXCEPT !.openai = threads[t].made]
                  ELSE [clients EXCEPT !.qdrant = threads[t].made]
    /\ threads' = [threads EXCEPT ![t].pc = "return"]
    /\ UNCHANGED <<collection, store, nextUuid, embedding_model, last, fn, sync>>

\* return _openai_client
GetClientReturn(t) ==
    /\ threads[t].pc = "return"
    /\ clients' = [clients EXCEPT
                      !.returned = @ \cup {<<threads[t].op, GlobalOf(threads[t].op)>>}]
    /\ threads' = [threads EXCEPT ![t].result = GlobalOf(threads[t].op),
                                  ![t].pc = "idle"]
    /\ UNCHANGED <<collection, store, nextUuid, embedding_model, last, fn, sync>>

NextClients ==
    \/ \E t \in Threads, which \in ClientGetters : GetClientCall(t, which)
    \/ \E t \in Threads : GetClientCheck(t)
    \/ \E t \in Threads : GetClientConstruct(t)
    \/ \E t \in Threads : GetClientAssign(t)
    \/ \E t \in Threads : GetClientReturn(t)

SpecClients == Init /\ [][NextClients]_vars

(***************************************************************************)
(* store_document and delete_document called from two threads at once,     *)
(* one remote call per step.  Each call of the vector index is atomic; a   *)
(* thread may be preempted between any two of them.  A thread keeps the    *)
(* record of its last operation until it starts the next one; "with" tells *)
(* whether the other thread was running the same call during it.           *)
(***************************************************************************)
\* the other thread
Other(t) == CHOOSE u \in Threads : u # t

\* the thread is inside an operation
Running(t) == threads[t].pc # "idle"

\* a thread enters store_document(content, ...) or delete_document(document_id, user_id)
OperationCall(t, op, user_id, document_id, content) ==
    /\ ~Running(t)
    /\ LET same == /\ Running(Other(t))
                   /\ threads[Other(t)].op = op
                   /\ threads[Other(t)].user_id = user_id
                   /\ threads[Other(t)].document_id = document_id
       IN  threads' = [u \in Threads |->
                          IF u = t
                          THEN [op |-> op, pc |-> "get_collection", user_id |-> user_id,
                                document_id |-> document_id, content |-> content,
                                trace |-> <<>>, fetched |-> {}, ok |-> TRUE,
                                result |-> NoResult, with |-> same]
                          ELSE IF same THEN [threads[u] EXCEPT !.with = TRUE]
                          ELSE threads[u]]
    /\ UNCHANGED <<collection, store, nextUuid, embedding_model, last, fn, clients, sync>>

\* ensure_collection_exists: client.get_collection
EnsureGetCollection(t) ==
    /\ threads[t].pc = "get_collection"
    /\ threads' = [threads EXCEPT
                      ![t].trace = Append(@, "get_collection"),
                      ![t].pc = IF collection # 0 THEN threads[t].op
                                ELSE "create_collection"]
    /\ UNCHANGED <<collection, store, nextUuid, embedding_model, last, fn, clients, sync>>

\* ensure_collection_exists: client.create_collection, which the index
\* refuses when the collection exists; the exception ends the operation
EnsureCreateCollection(t) ==
    /\ threads[t].pc = "create_collection"
    /\ IF collection # 0
       THEN /\ threads' = [threads EXCEPT
                              ![t].trace = Append(@, "create_collection"),
                              ![t].ok = FALSE, ![t].result = StorageError,
                              ![t].pc = "idle"]
            /\ UNCHANGED collection
       ELSE /\ threads' = [threads EXCEPT
                              ![t].trace = Append(@, "create_collection"),
                              ![t].pc = threads[t].op]
            /\ collection' = get_embedding_dimension(embedding_model)
    /\ UNCHANGED <<store, nextUuid, embedding_model, last, fn, clients, sync>>

\* store_document after ensure_collection_exists (lines 39-68)
StoreDocumentBody(t) ==
    /\ threads[t].pc = "store_document"
    /\ \E o \in {store_document(collection, store, nextUuid, threads[t].content, "f.txt",
                                threads[t].user_id, AllOk(threads[t].content), "none")} :
           /\ o.nextUuid <= MaxUuid + 1
           /\ store' = o.store
           /\ nextUuid' = o.nextUuid
           /\ threads' = [threads EXCEPT ![t].trace = @ \o Tail(o.rec.trace),
                                         ![t].ok = o.rec.ok,
                                         ![t].result = o.rec.result,
                                         ![t].pc = "idle"]
    /\ UNCHANGED <<collection, embedding_model, last, fn, clients, sync>>

\* mutant: the call reports whether a chunk it found was still there to delete
MutDeleteReturns(point_ids, points) == \E p \in points : p.id \in point_ids

\* what delete_document returns once its scroll found point_ids
DeleteReturns(point_ids, points) == point_ids # {}

\* delete_document: client.scroll and "if not point_ids: return False"
DeleteScroll(t) ==
    /\ threads[t].pc = "delete_document"
    /\ \E pg \in Pages(DeleteFilter(store, threads[t].document_id, threads[t].user_id),
                       DeleteScrollLimit) :
          threads' = [threads EXCEPT
                         ![t].trace = Append(@, "scroll"),
                         ![t].fetched = {p.id : p \in pg},
                         ![t].result = IF pg = {} THEN FALSE ELSE NoResult,
                         ![t].pc = IF pg = {} THEN "idle" ELSE "delete"]
    /\ UNCHANGED <<collection, store, nextUuid, embedding_model, last, fn, clients, sync>>

\* delete_document: client.delete (an id that is gone is ignored) and return True
DeleteIssue(t) ==
    /\ threads[t].pc = "delete"
    /\ store' = {p \in store : p.id \notin threads[t].fetched}
    /\ threads' = [threads EXCEPT
                      ![t].trace = Append(@, "delete"),
                      ![t].result = DeleteReturns(threads[t].fetched, store),
                      ![t].pc = "idle"]
    /\ UNCHANGED <<collection, nextUuid, embedding_model, last, fn, clients, sync>>

NextRace ==
    \/ \E t \in Threads, user_id \in Owners :
          \/ OperationCall(t, "store_document", user_id, 0, <<"a", " ", "b">>)
          \/ \E document_id \in 1..MaxUuid :
                OperationCall(t, "delete_document", user_id, document_id, <<>>)
    \/ \E t \in Threads : EnsureGetCollection(t)
    \/ \E t \in Threads : EnsureCreateCollection(t)
    \/ \E t \in Threads : StoreDocumentBody(t)
    \/ \E t \in Threads : DeleteScroll(t)
    \/ \E t \in Threads : DeleteIssue(t)

SpecRace == Init /\ [][NextRace]_vars

(***************************************************************************)
(* Properties.                                                             *)
(***************************************************************************)
PointsOf(ids) == {p \in store : p.id \in ids}

\* C1: the records search_documents(q, A, limit) and get_user_documents(A,
\* limit) return are built only from stored chunks whose user_id is A: every
\* point the index returned is A's, every search result is the record of one
\* of A's chunks, and every document summary counts A's chunks only.
C1_TenantIsolation ==
    /\ (last.op \in {"search_documents", "get_user_documents"} /\ last.ok) =>
          \A p \in store : p.id \in last.fetched => p.payload.user_id = last.user_id
    /\ (last.op = "search_documents" /\ last.ok) =>
          \A r \in last.result :
             /\ \E p \in store : r = SearchResult(p) /\ p.payload.user_id = last.user_id
             /\ \A p \in store : p.id = r.id => p.payload.user_id = last.user_id
    /\ (last.op = "get_user_documents" /\ last.ok) =>
          \A d \in last.result :
             LET own == {p \in store : /\ p.payload.document_id = d.document_id
                                       /\ p.payload.user_id = last.user_id}
             IN  /\ own # {}
                 /\ d.chunks_count <= Cardinality(own)
                 /\ d.total_words <= SumWordCount(own)

\* C1 witness: A searches and gets results while B's chunks are in the collection
C1_Witness ==
    /\ last.op = "search_documents" /\ last.ok /\ last.user_id = "A"
    /\ last.result # {}
    /\ \E p \in store : p.payload.user_id = "B"

\* C2: once delete_document(d, o) has returned True no chunk of document d
\* remains, and a delete_document(d, o) that follows returns False without
\* raising.
C2_DeleteIsComplete ==
    [][/\ (last'.op = "delete_document" /\ last'.ok /\ last'.result = TRUE) =>
             \A p \in store' : p.payload.document_id # last'.document_id
       /\ (/\ last.op = "delete_document" /\ last.ok /\ last.result = TRUE
           /\ last'.op = "delete_document" /\ last'.fault = "none"
           /\ last'.document_id = last.document_id /\ last'.user_id = last.user_id) =>
             (last'.ok /\ last'.result = FALSE)]_vars

\* C3: for every document_id with a stored chunk, the stored chunk_index values
\* are exactly 0..n-1 without repeats, and the chunks carry one user_id,
\* file_hash and embedding_model.
C3_DocumentsWhole ==
    \A d \in {p.payload.document_id : p \in store} :
       LET chunks == {p \in store : p.payload.document_id = d}
       IN  /\ {p.payload.chunk_index : p \in chunks} = 0..(Cardinality(chunks) - 1)
           /\ \A p, q \in chunks :
                 /\ p.payload.user_id = q.payload.user_id
                 /\ p.payload.file_hash = q.payload.file_hash
                 /\ p.payload.embedding_model = q.payload.embedding_model

\* C4: when store_document has succeeded with n chunks, the get_user_documents
\* of the same owner (default limit) that follows has exactly one entry for the
\* returned document_id, with the chunks_count and total_words store_document
\* returned.
C4_RoundTrip ==
    [][(/\ last.op = "store_document" /\ last.ok
        /\ last'.op = "get_user_documents" /\ last'.ok
        /\ last'.user_id = last.user_id /\ last'.limit = DefaultListLimit) =>
          (/\ Cardinality({e \in last'.result :
                              e.document_id = last.result.document_id}) = 1
           /\ \A e \in last'.result :
                 e.document_id = last.result.document_id =>
                    /\ e.chunks_count = last.result.chunks_count
                    /\ e.total_words = last.result.total_words)]_vars

\* C5: the scroll of get_user_documents obtains min(limit, matching) chunks and
\* the scroll of delete_document, which passes no limit, every matching chunk.
C5_ScrollIsComplete ==
    (/\ last.op \in {"get_user_documents", "delete_document"}
     /\ "scroll" \in RangeOf(last.trace) /\ last.fault # "scroll") =>
       Cardinality(last.fetched) =
          IF last.op = "get_user_documents"
          THEN Min(last.limit, Cardinality(last.matching))
          ELSE Cardinality(last.matching)

\* C6: the records create_document_chunks returns share one document_id and
\* file_hash and carry the given user_id and filename; their ids are pairwise
\* distinct; chunk_index is the record's position (0..n-1); chunk_word_count is
\* the number of words of the record's own chunk_text.
C6_ChunkRecords ==
    (fn.name = "create_document_chunks" /\ fn.out.ok) =>
       LET cs == fn.out.chunks
       IN  \A i \in 1..Len(cs) :
              /\ cs[i].payload.document_id = cs[1].payload.document_id
              /\ cs[i].payload.file_hash = cs[1].payload.file_hash
              /\ cs[i].payload.user_id = fn.user_id
              /\ cs[i].payload.filename = fn.filename
              /\ cs[i].payload.chunk_index = i - 1
              /\ cs[i].payload.chunk_word_count = Len(Split(cs[i].payload.chunk_text))
              /\ \A j \in 1..Len(cs) : cs[i].id = cs[j].id => i = j

\* C6 witness: a call that returned several records
C6_Witness ==
    fn.name = "create_document_chunks" /\ fn.out.ok /\ Len(fn.out.chunks) >= 3

\* C7: store_document of a content without words fails, with the "No chunks
\* were created" error once the collection check has passed; it issues no
\* embedding call and no upsert and leaves the stored chunks as they were.
C7_EmptyContentStoresNothing ==
    [][(last'.op = "store_document" /\ Split(last'.content) = <<>>) =>
          /\ ~last'.ok
          /\ last'.fault = "none" => last'.error = NoChunksError
          /\ last'.embed_calls = <<>>
          /\ "upsert" \notin RangeOf(last'.trace)
          /\ store' = store]_vars

\* C7 witness: the call failed so while chunks were stored
C7_Witness ==
    /\ last.op = "store_document" /\ last.error = NoChunksError
    /\ Split(last.content) = <<>> /\ last.content # <<>>
    /\ store # {}

Mismatched ==
    \E k \in 1..Len(last.embed_calls) : last.oracle[k] \in {"short", "long"}

\* C9: a store_document whose embedding call was answered with a wrong number
\* of vectors aborts: it returns no result and issues no upsert, so no chunk is
\* dropped or stored with another chunk's vector.
C9_MismatchAborts ==
    (last.op = "store_document" /\ Mismatched) =>
       /\ ~last.ok
       /\ last.result = NoResult
       /\ "upsert" \notin RangeOf(last.trace)

\* the first call the service fails
FirstFail(oracle) ==
    CHOOSE k \in DOMAIN oracle :
       oracle[k] = "fail" /\ \A j \in 1..(k - 1) : oracle[j] # "fail"

\* C10: when the remote call of a batch fails, the service call ends with the
\* one "Failed to generate embeddings" error and no result, the failed call is
\* the last embedding call issued, and no upsert or search follows.
C10_FailureAborts ==
    (/\ last.op \in {"store_document", "search_documents"}
     /\ last.embed_calls # <<>>
     /\ \E k \in DOMAIN last.oracle : last.oracle[k] = "fail") =>
       /\ ~last.ok
       /\ last.error = EmbeddingError
       /\ last.result = NoResult
       /\ Len(last.embed_calls) = FirstFail(last.oracle)
       /\ "upsert" \notin RangeOf(last.trace)
       /\ "search" \notin RangeOf(last.trace)

\* C10 witness: the second batch failed after the first had succeeded
C10_Witness ==
    /\ last.op = "store_document"
    /\ Len(last.oracle) = 2 /\ last.oracle[1] = "ok" /\ last.oracle[2] = "fail"
    /\ Len(last.embed_calls) = 2

\* the inputs batch k (from 1) of texts carries, cleaned, in their order
BatchOf(texts, k) ==
    [j \in 1..(Min(Len(texts), k * BatchSize) - (k - 1) * BatchSize) |->
        CleanText(texts[(k - 1) * BatchSize + j])]

\* C11: generate_embeddings on n texts that returns has issued exactly
\* ceil(n / batch_size) remote calls (none for n = 0); the k-th call carries the
\* texts k*batch_size .. min(n, (k+1)*batch_size) - 1 in their order, so no call
\* carries more than batch_size inputs and every text is sent exactly once.  A
\* call that raises ends the sequence of calls there.
C11_Batching ==
    fn.name = "generate_embeddings" =>
       LET n == Len(fn.texts)
           calls == fn.out.calls
       IN  /\ fn.out.ok => Len(calls) = BatchCount(n)
           /\ Len(calls) <= BatchCount(n)
           /\ \A k \in 1..Len(calls) :
                 /\ calls[k] = BatchOf(fn.texts, k)
                 /\ Len(calls[k]) \in 1..BatchSize
           /\ fn.out.ok => SumSeq([k \in 1..Len(calls) |-> Len(calls[k])]) = n

\* C11 witness: a full batch followed by a partial one
C11_Witness ==
    /\ fn.name = "generate_embeddings" /\ fn.out.ok
    /\ Len(fn.texts) = BatchSize + 1
    /\ Len(fn.out.calls) = 2 /\ Len(fn.out.calls[2]) = 1

RECURSIVE CollapseRuns(_)
\* every run of whitespace replaced by one space
CollapseRuns(text) ==
    IF text = <<>> THEN <<>>
    ELSE IF Head(text) \in Whitespace THEN <<" ">> \o CollapseRuns(LStrip(text))
    ELSE <<Head(text)>> \o CollapseRuns(Tail(text))

Placeholder == <<"e", "m", "p", "t", "y", " ", "t", "e", "x", "t">>

\* C12: every string generate_embeddings sends is non-empty and at most
\* max_chars long: a text of whitespace only is sent as 'empty text', any other
\* as the first min(length, max_chars) characters of its form with whitespace
\* runs collapsed and the ends trimmed.
C12_SentStrings ==
    fn.name = "generate_embeddings" =>
       \A k \in 1..Len(fn.out.calls) : \A j \in 1..Len(fn.out.calls[k]) :
          LET sent == fn.out.calls[k][j]
              text == fn.texts[(k - 1) * BatchSize + j]
              form == Strip(CollapseRuns(text))
          IN  /\ sent # <<>>
              /\ Len(sent) <= MaxChars
              /\ (\A c \in RangeOf(text) : c \in Whitespace) => sent = Placeholder
              /\ (\E c \in RangeOf(text) : c \notin Whitespace) =>
                    sent = SubSeq(form, 1, Min(Len(form), MaxChars))

\* C12 witness: one call carried a placeholder and a truncated text
C12_Witness ==
    /\ fn.name = "generate_embeddings"
    /\ \E k \in 1..Len(fn.out.calls) :
          /\ \E j \in 1..Len(fn.out.calls[k]) : fn.out.calls[k][j] = Placeholder
          /\ \E j \in 1..Len(fn.out.calls[k]) :
                /\ Len(fn.out.calls[k][j]) = MaxChars
                /\ Len(fn.texts[(k - 1) * BatchSize + j]) > MaxChars

\* a chunk_text call within its contract: chunk_size >= 1, 0 <= overlap <
\* chunk_size, and a text of at least one word
ChunkCall ==
    /\ fn.name = "chunk_text"
    /\ fn.chunk_size >= 1 /\ fn.overlap >= 0 /\ fn.overlap < fn.chunk_size
    /\ Split(fn.text) # <<>>

RECURSIVE Flatten(_)
Flatten(ss) == IF ss = <<>> THEN <<>> ELSE Head(ss) \o Flatten(Tail(ss))

\* C13: for a text of N >= 1 words and overlap < chunk_size, the k-th chunk
\* (from 0) is words[k*s .. min(N, k*s + chunk_size) - 1] joined by single
\* spaces, s = chunk_size - overlap; every chunk has at most chunk_size words,
\* consecutive chunks share exactly overlap words, and the chunks without the
\* first overlap words of each but the first give back the words in order.
C13_Windows ==
    ChunkCall =>
       LET words == Split(fn.text)
           N == Len(words)
           s == fn.chunk_size - fn.overlap
           chunks == fn.out
           w == [k \in 1..Len(chunks) |-> Split(chunks[k])]
       IN  /\ ~fn.raised
           /\ \A k \in 0..(Len(chunks) - 1) :
                 /\ k * s < N
                 /\ chunks[k + 1] =
                       Join(SubSeq(words, k * s + 1, Min(N, k * s + fn.chunk_size)))
                 /\ Len(w[k + 1]) \in 1..fn.chunk_size
           /\ \A k \in 1..(Len(chunks) - 1) :
                 /\ Len(w[k]) >= fn.overlap /\ Len(w[k + 1]) > fn.overlap
                 /\ SubSeq(w[k], Len(w[k]) - fn.overlap + 1, Len(w[k])) =
                       SubSeq(w[k + 1], 1, fn.overlap)
                 /\ \A a \in RangeOf(w[k]), b \in RangeOf(w[k + 1]) :
                       a = b => a \in RangeOf(SubSeq(w[k + 1], 1, fn.overlap))
           /\ Flatten([k \in 1..Len(chunks) |->
                         IF k = 1 THEN w[k]
                         ELSE SubSeq(w[k], fn.overlap + 1, Len(w[k]))]) = words

\* C13 witness: three chunks with an overlap, the last one shorter
C13_Witness ==
    /\ ChunkCall /\ fn.overlap >= 1
    /\ Len(fn.out) >= 3
    /\ Len(Split(fn.out[Len(fn.out)])) < fn.chunk_size

\* C14: for a text of at least one word and fewer words than chunk_size,
\* chunk_text returns exactly one chunk, the whole text with its leading and
\* trailing whitespace removed.
C14_ShortText ==
    (ChunkCall /\ Len(Split(fn.text)) < fn.chunk_size) =>
       (~fn.raised /\ fn.out = <<Strip(fn.text)>>)

\* C14 as amended: the one chunk is the trimmed text with every run of
\* whitespace inside it replaced by one space.
C14_ShortTextCollapsed ==
    (ChunkCall /\ Len(Split(fn.text)) < fn.chunk_size) =>
       (~fn.raised /\ fn.out = <<Strip(CollapseRuns(fn.text))>>)

\* C14 witness: a short text whose words a newline and spaces separate
C14_Witness ==
    /\ ChunkCall /\ Len(Split(fn.text)) < fn.chunk_size
    /\ Len(fn.out) = 1
    /\ fn.out[1] # Strip(fn.text)

\* the number of times call occurs in trace
RECURSIVE CountOf(_, _)
CountOf(trace, call) ==
    IF trace = <<>> THEN 0
    ELSE (IF Head(trace) = call THEN 1 ELSE 0) + CountOf(Tail(trace), call)

EnsureSteps == {"get_collection", "create_collection"}
IndexSteps == {"upsert", "search", "scroll", "delete"}

\* the steps of trace from the first one that is not a step of ensure on
AfterEnsure(trace) ==
    LET first == {k \in 1..Len(trace) : trace[k] \notin EnsureSteps}
    IN  IF first = {} THEN <<>>
        ELSE SubSeq(trace, CHOOSE k \in first : \A j \in first : k <= j, Len(trace))

\* C16: in store_document, search_documents, get_user_documents and
\* delete_document, ensure_collection_exists has completed before any upsert,
\* search, scroll or delete is issued (and none is issued when it raised);
\* store_document runs ensure, segment, embed, one upsert in this order, and
\* search_documents ensure, one embedding call whose only input is the query
\* (as generate_embeddings cleans it), one search.
C16_StepOrder ==
    (last.op \in {"store_document", "search_documents", "get_user_documents",
                  "delete_document"}) =>
       LET t == last.trace
           rest == AfterEnsure(t)
           n == Len(last.embed_calls)
       IN  /\ t # <<>> /\ t[1] = "get_collection"
           /\ \A k \in 1..Len(rest) : rest[k] \notin EnsureSteps
           /\ last.fault \in EnsureSteps => rest = <<>>
           /\ \A x \in IndexSteps : CountOf(t, x) <= 1
           /\ last.op = "store_document" =>
                 /\ rest \in {<<>>, <<"chunk_text">> \o EmbedSteps(last.embed_calls),
                               <<"chunk_text">> \o EmbedSteps(last.embed_calls)
                                   \o <<"upsert">>}
                 /\ last.ok => (n >= 1 /\ rest[Len(rest)] = "upsert")
           /\ last.op = "search_documents" =>
                 /\ rest \in {<<>>, <<"embed">>, <<"embed", "search">>}
                 /\ rest # <<>> =>
                       last.embed_calls = <<(<<Strip(CollapseRuns(last.content))>>)>>
                 /\ last.ok => rest = <<"embed", "search">>
           /\ last.op = "get_user_documents" =>
                 (rest \in {<<>>, <<"scroll">>} /\ (last.ok => rest = <<"scroll">>))
           /\ last.op = "delete_document" =>
                 /\ rest \in {<<>>, <<"scroll">>, <<"scroll", "delete">>}
                 /\ last.ok => rest # <<>>

\* C16 witness: a store_document that created the collection, embedded two
\* batches and upserted
C16_Witness ==
    /\ last.op = "store_document" /\ last.ok
    /\ last.trace = <<"get_collection", "create_collection", "chunk_text",
                      "embed", "embed", "upsert">>

\* C17: store_document writes all chunk records of the document in exactly
\* one upsert; when the call fails no success result is returned, nothing is
\* written and no upsert is repeated; so after store_document either none or
\* all of the document's chunks are stored.
C17_StoreAllOrNothing ==
    [][(last'.op = "store_document") =>
          /\ CountOf(last'.trace, "upsert") <= 1
          /\ ~last'.ok => (store' = store /\ last'.result = NoResult)
          /\ last'.ok =>
                LET written == store' \ store
                IN  /\ CountOf(last'.trace, "upsert") = 1
                    /\ store \subseteq store'
                    /\ \A p \in written : p.payload.document_id = last'.document_id
                    /\ last'.result.chunks_count = Cardinality(written)
                    /\ Cardinality(written) =
                          Len(chunk_text(last'.content, DefaultChunkSize,
                                         DefaultOverlap))]_vars

\* C18: delete_document(d, o) removes only chunks whose document_id is d and
\* whose user_id is o and changes no other stored chunk; when no chunk matches
\* (unknown document, or a document of another user) it returns False, issues
\* no delete and leaves the store as it was.
C18_DeleteFrame ==
    [][(last'.op = "delete_document") =>
          /\ store' \subseteq store
          /\ \A p \in store \ store' :
                /\ p.payload.document_id = last'.document_id
                /\ p.payload.user_id = last'.user_id
          /\ (~\E p \in store : /\ p.payload.document_id = last'.document_id
                                 /\ p.payload.user_id = last'.user_id) =>
                /\ store' = store
                /\ "delete" \notin RangeOf(last'.trace)
                /\ last'.ok => last'.result = FALSE]_vars

\* C18 witness: a user asked to delete another user's document and got False
C18_Witness ==
    /\ last.op = "delete_document" /\ last.ok /\ last.result = FALSE
    /\ \E p \in store : /\ p.payload.document_id = last.document_id
                         /\ p.payload.user_id # last.user_id

\* the search_documents call inside the last call failed: ensure raised, the
\* query embedding failed or came back empty, or the search raised
SearchFailed == last.error # ""

C20_SearchFailureSurfaces ==
    (/\ last.op \in {"search_documents", "search_user_documents"}
     /\ \/ last.fault = "search"
        \/ (last.embed_calls # <<>> /\ last.oracle[1] = "fail")) =>
       /\ ~last.ok
       /\ last.op = "search_documents" =>
             (last.result = NoResult /\ last.error \in {EmbeddingError, StorageError})
       /\ last.op = "search_user_documents" =>
             /\ last.result.status = 500
             /\ last.result.detail[1] = SearchErrorDetail
             /\ "body" \notin DOMAIN last.result

\* C20 witness: the route answered 500 to a user who has stored chunks, the
\* query embedding having failed
C20_Witness ==
    /\ last.op = "search_user_documents" /\ last.result.status = 500
    /\ last.error = EmbeddingError
    /\ \E p \in store : p.payload.user_id = last.user_id

\* C21: over any sequence of calls in one process, concurrent ones included,
\* get_openai_client and get_qdrant_client each construct their client at most
\* once and every call returns that one instance.
C21_SingleClient ==
    \A which \in ClientGetters :
       /\ Cardinality({k \in 1..Len(clients.built) : clients.built[k] = which}) <= 1
       /\ Cardinality({r \in clients.returned : r[1] = which}) <= 1

\* C22: an upload of an allowed type whose extracted text is empty or
\* whitespace only is answered 400 with the detail 'No text content could be
\* extracted from the file.', and store_document is not called.
C22_EmptyUploadRejected ==
    (/\ last.op = "upload_document"
     /\ Len(last.content) <= MaxFileSize
     /\ Strip(extract_text_from_file(last.content)) = <<>>
     /\ last.result.status # 413
     /\ last.result.detail # UnsupportedTypeDetail) =>
       /\ last.result = [status |-> 400, detail |-> NoTextDetail]
       /\ last.trace = <<>>

\* C23: when fetch_all_pages fails, for whatever reason, sync_notion_pages
\* answers 400 with the error message, and no page content is fetched and no
\* document stored.
C23_ListingFailure ==
    (last.op = "sync_notion_pages" /\ last.fault # "none") =>
       /\ last.result.status = 400
       /\ last.result.detail = NotionErrorDetail
       /\ last.trace = <<"fetch_all_pages">>

SyncMoves ==
    {<<"pending", "running">>, <<"running", "success">>, <<"running", "error">>}

\* the non-empty pages of a page list
NonEmptyPages(pages) == {k \in DOMAIN pages : Strip(pages[k].content) # <<>>}

\* C30: a NotionSyncStatus row is created pending, is never removed, and
\* changes only by pending -> running -> success | error, so a terminal row
\* never changes again; when do_sync returns, its row is success or error
\* with finished_at set, and it is success only if the user was found, the
\* page list and every page's content were fetched, and store_document
\* succeeded for every non-empty page.
C30_SyncStatus ==
    [][/\ Len(sync') >= Len(sync)
       /\ \A id \in DOMAIN sync' \ DOMAIN sync : sync'[id].status = "pending"
       /\ \A id \in DOMAIN sync :
             sync'[id] # sync[id] =>
                <<sync[id].status, sync'[id].status>> \in SyncMoves
       /\ (last' # last /\ last'.op = "do_sync" /\ last'.ok) =>
             LET row == sync'[last'.document_id]
                 pages == last'.content
             IN  /\ row.status \in {"success", "error"}
                 /\ row.finished_at = "set"
                 /\ row.status = "success" =>
                       /\ last'.result.user_found
                       /\ last'.result.listing = "ok"
                       /\ \A k \in DOMAIN pages : pages[k].fetch = "ok"
                       /\ last'.result.stored = Cardinality(NonEmptyPages(pages))
                       /\ last'.result.error = <<>>]_vars

\* C30 witness: one sync has ended in success with a page stored and an empty
\* page skipped, another in error
C30_Witness ==
    /\ last.op = "do_sync" /\ last.ok
    /\ \E id \in DOMAIN sync : sync[id].status = "success"
    /\ \E id \in DOMAIN sync : sync[id].status = "error"
    /\ last.result.stored >= 1
    /\ Len(last.content) > Cardinality(NonEmptyPages(last.content))

\* the content fragments among events, in emission order, concatenated
RECURSIVE ContentOf(_)
ContentOf(events) ==
    IF events = <<>> THEN <<>>
    ELSE (IF Head(events).type = "content" THEN Head(events).content ELSE <<>>)
            \o ContentOf(Tail(events))

\* C24: in a streaming response the first event is the metadata event and
\* the only one; content events come after it; a terminal event (complete
\* or error) is the last event, so there is one at most and nothing follows
\* it; a finished stream ends with a terminal event, and a complete event's
\* full_response is the concatenation of the content fragments in order.
C24_StreamOrder ==
    Gen.op = "response_generator" =>
       LET ev == Gen.events
       IN  /\ \A k \in DOMAIN ev : (ev[k].type = "metadata") <=> (k = 1)
           /\ \A k \in DOMAIN ev :
                 ev[k].type \in {"complete", "error"} => k = Len(ev)
           /\ \A k \in DOMAIN ev :
                 ev[k].type = "complete" => ev[k].full_response = ContentOf(ev)
           /\ Gen.pc = "done" =>
                 /\ ev # <<>>
                 /\ ev[Len(ev)].type \in {"complete", "error"}
                 /\ ev[Len(ev)].type = "error" => Len(ev) = 2

\* C24 witness: a finished stream of two content fragments
C24_Witness ==
    /\ Gen.op = "response_generator" /\ Gen.pc = "done"
    /\ Len(Gen.events) = 4
    /\ Gen.events[4].type = "complete"
    /\ Gen.events[4].full_response = <<"H", "i", "!">>

\* C29: a chat_message request that is not rejected performs exactly one
\* context retrieval, whatever stream is: one search_relevant_context call
\* (each begins with one get_collection), hence at most one query-embedding
\* call and at most one vector search.
C29_OneRetrieval ==
    (last.op = "chat_message" /\ last.result.status = 200) =>
       /\ CountOf(last.trace, "get_collection") = 1
       /\ CountOf(last.trace, "embed") <= 1
       /\ CountOf(last.trace, "search") <= 1

\* the number of chunks of N words: 0 for no word, 1 up to chunk_size
\* words, else ceil((N - chunk_size) / s) + 1 with s = chunk_size - overlap
ChunkCount(N, chunk_size, overlap) ==
    IF N = 0 THEN 0
    ELSE IF N <= chunk_size THEN 1
    ELSE ((N - chunk_size) + (chunk_size - overlap) - 1) \div (chunk_size - overlap) + 1

\* C25: for 0 <= overlap < chunk_size, chunk_text returns, with
\* ChunkCount(N, chunk_size, overlap) chunks for a text of N words; the window
\* of a chunk reaches or passes word N exactly when the chunk is the last;
\* no chunk is empty, and the last chunk is not made of words the chunk
\* before it already covers to the end of the text.
C25_ChunkCount ==
    (/\ fn.name = "chunk_text"
     /\ fn.chunk_size >= 1 /\ fn.overlap >= 0 /\ fn.overlap < fn.chunk_size) =>
       LET N == Len(Split(fn.text))
           s == fn.chunk_size - fn.overlap
           n == Len(fn.out)
       IN  /\ ~fn.raised
           /\ n = ChunkCount(N, fn.chunk_size, fn.overlap)
           /\ \A k \in 0..(n - 1) :
                 /\ ((k * s + fn.chunk_size >= N) <=> (k = n - 1))
                 /\ Split(fn.out[k + 1]) # <<>>
                 /\ k * s < N

\* C25 witness: several overlapping chunks, the window of the last ending
\* exactly at the last word
C25_Witness ==
    /\ fn.name = "chunk_text"
    /\ fn.overlap >= 1 /\ fn.overlap < fn.chunk_size
    /\ Len(Split(fn.text)) > fn.chunk_size
    /\ (Len(Split(fn.text)) - fn.chunk_size) % (fn.chunk_size - fn.overlap) = 0
    /\ Len(fn.out) >= 3

\* C26: store_document returns, for a content of N words stored as n chunks,
\* total_words = N + overlap * (n - 1), which is N only when n = 1; and the
\* get_user_documents of the same owner that follows reports that number
\* for the document.
C26_TotalWords ==
    [][/\ (last'.op = "store_document" /\ last'.ok) =>
             LET N == Len(Split(last'.content))
                 n == Len(chunk_text(last'.content, DefaultChunkSize, DefaultOverlap))
             IN  /\ last'.result.chunks_count = n
                 /\ last'.result.total_words = N + DefaultOverlap * (n - 1)
                 /\ (last'.result.total_words = N) <=> (n = 1)
       /\ (/\ last.op = "store_document" /\ last.ok
           /\ last'.op = "get_user_documents" /\ last'.ok
           /\ last'.user_id = last.user_id) =>
             \E e \in last'.result :
                /\ e.document_id = last.result.document_id
                /\ e.total_words = Len(Split(last.content))
                      + DefaultOverlap * (last.result.chunks_count - 1)]_vars

\* the threads running, or having last run, store_document or delete_document
Operating == {t \in Threads : threads[t].op \in {"store_document", "delete_document"}}

\* C27: when operations run concurrently while the collection is absent,
\* create_collection is issued at most once among them, and none of them
\* fails at its create_collection because another operation has created
\* the collection since its check.
C27_CreateOnce ==
    /\ SumSeq([t \in 1..Cardinality(Threads) |->
                  IF t \in Operating THEN CountOf(threads[t].trace, "create_collection")
                  ELSE 0]) <= 1
    /\ \A t \in Operating :
          ~threads[t].ok => threads[t].trace # <<"get_collection", "create_collection">>

\* two delete_document calls for the same document and owner that ran
\* concurrently and have both returned
ConcurrentDeletes ==
    /\ Operating = Threads
    /\ \A t \in Threads :
          /\ threads[t].op = "delete_document" /\ threads[t].pc = "idle"
          /\ threads[t].with /\ threads[t].ok
    /\ threads[1].document_id = threads[2].document_id
    /\ threads[1].user_id = threads[2].user_id

\* C28: of two concurrent delete_document calls for a document that has
\* chunks, exactly one returns True and the other False; never both True.
C28_ExactlyOneDeletes ==
    ConcurrentDeletes =>
       /\ ~(threads[1].result = TRUE /\ threads[2].result = TRUE)
       /\ (threads[1].fetched # {} \/ threads[2].fetched # {}) =>
             (threads[1].result # threads[2].result)

\* C28 as amended: a delete_document call that returns reports what its own
\* scroll found, True when it returned a chunk and False when it returned
\* none, whether or not the other call has deleted those chunks meanwhile.
C28_DeleteReportsScroll ==
    \A t \in Operating :
       (threads[t].op = "delete_document" /\ threads[t].pc = "idle" /\ threads[t].ok) =>
          /\ threads[t].result = (threads[t].fetched # {})
          /\ \A p \in store : p.id \notin threads[t].fetched

\* C28 witness: both concurrent calls found the document's chunk and both
\* returned True
C28_Witness ==
    /\ ConcurrentDeletes
    /\ threads[1].result = TRUE /\ threads[2].result = TRUE
    /\ threads[1].fetched \cap threads[2].fetched # {}

====
